---- MODULE Spec2Model ----
(***************************************************************************)
(* networkzero: the discovery beacon (networkzero/discovery.py), its       *)
(* process-wide lifecycle (start_beacon, atexit hooks) and the             *)
(* request/reply messaging primitives exercised by tests/test_messenger.py.*)
(*                                                                         *)
(* Time is counted in ticks of finder_timeout_secs (0.5 s): the poll of    *)
(* check_for_adverts lasts one tick, interval_secs (2 s) is four ticks.    *)
(* Every step of the worker takes no time except the two places where the  *)
(* code waits: the poll in check_for_adverts and the loop of do_discover.  *)
(***************************************************************************)
EXTENDS Integers, Sequences, FiniteSets, TLC

(* ---------------------------------------------------------------- bounds *)
\* the longest wait_for_secs a caller passes to discover, in ticks
LongWait == 9
\* the number of calls the application on host h1 makes in one behaviour
MaxCalls == 2

(* ------------------------------------------------------ program constants *)
\* Beacon.interval_secs = 2, in ticks of 0.5 s
interval_ticks == 4
\* Beacon.finder_timeout_secs = 0.5, in ticks of 0.5 s
finder_timeout_ticks == 1

(* ----------------------------------------------------------------- values *)
\* Python values whose type is not fixed (an optional ip, the result of a
\* command) carry their type; text and numbers of fixed type are TLA+ values.
None == [t |-> "none"]
Str(s) == [t |-> "str", v |-> s]
Tuple(s) == [t |-> "tuple", v |-> s]
List(s) == [t |-> "list", v |-> s]

\* the hosts of the LAN segment; a host's name is its IP address. The
\* application on h1 uses the whole API; h2 is a peer whose application
\* advertises one service.
Hosts == {"h1", "h2"}
App == "h1"
Peer == "h2"
Names == {"a", "b"}
\* addresses as the callers write them, character by character
Addresses == { <<"1">>, <<"h", ":", "2">> }
\* wait_for_secs in ticks: -1 s (the default) and a long wait
Waits == {-2, LongWait}

NoMsg == [json |-> [t |-> "nothing"]]

\* the application threads of one process; each calls advertise, unadvertise
\* or discover, whose first statement is start_beacon()
Threads == {"t1", "t2"}

\* an end of a message exchange before anything has called it
Nobody == [who |-> "", pc |-> "idle", message |-> None, reply |-> None,
           autoreply |-> FALSE]

\* json.dumps(message).encode(): a tuple is written as an array
pack(message) ==
    [json |-> IF message.t = "tuple" THEN List(message.v) ELSE message]

\* json.loads(message.decode())
unpack(message) == message.json

RECURSIVE Join(_)
Join(chars) == IF chars = <<>> THEN "" ELSE Head(chars) \o Join(Tail(chars))

\* a variant that takes the verb as it was sent
as_sent(action) == action

\* str.lower() on the verbs the clients send
lower(action) ==
    CASE action = "Advertise" -> "advertise"
      [] action = "STOP" -> "stop"
      [] OTHER -> action

\* split_address(address): partition at the first colon
split_address(address) ==
    IF \E i \in 1..Len(address) : address[i] = ":"
    THEN LET i == CHOOSE k \in 1..Len(address) :
                      /\ address[k] = ":"
                      /\ \A j \in 1..(k-1) : address[j] # ":"
         IN  <<Str(Join(SubSeq(address, 1, i-1))),
               Join(SubSeq(address, i+1, Len(address)))>>
    ELSE <<None, Join(address)>>

(* ------------------------------------------------------------------ state *)
VARIABLES
    pc,                     \* where each host's Beacon.run is
    services_to_advertise,  \* Beacon._services_to_advertise: name -> ports
    services_found,         \* Beacon._services_found: name -> {(ip, port)}
    udp,                    \* datagrams waiting in Beacon.socket's buffer
    since_t0,               \* time.time() - t0 of run, capped
    discovering,            \* do_discover's name while it loops
    until_t1,               \* t1 - time.time() of do_discover
    poll_left,              \* what is left of poller.poll's timeout
    raised,                 \* the exception that ended the worker
    warned,                 \* the last command logged a warning
    rpc_in,                 \* request waiting at Beacon.rpc
    rpc_out,                \* reply sent on Beacon.rpc to the caller
    call,                   \* the API call each host's application made last
    calls,                  \* how many calls the application on h1 has made
    hooks,                  \* the callbacks the application gave atexit.register
    heard,                  \* history: an advert for the name do_discover waits
                            \* for reached the socket before the deadline
    _beacon,                \* the module global _beacon of discovery.py
    thread,                 \* where each application thread is in start_beacon
    outcome,                \* how each thread's last API call ended
    connected_to,           \* where each thread's _rpc connected last
    port_holder,            \* who holds the beacon port and the control port
    constructed,            \* the Beacon objects whose __init__ returned
    started,                \* the Beacon objects whose start() was called
    starts,                 \* how many API calls the threads have begun
    speaker,                \* the requester of a message exchange
    listener,               \* the replier of a message exchange
    wire,                   \* what each end has sent and the other not yet read
    events,                 \* history: the exchange's calls and returns in order
    exchanges,              \* how many exchanges have begun
    stop_event,             \* Beacon._stop_event is set
    locked_by,              \* the thread that holds Beacon._lock, if any
    at,                     \* the statement of a Beacon method each thread is at
    frame,                  \* the method's arguments and its local `ports`
    heap,                   \* the set objects that are or were buckets
    bucket_of,              \* _services_to_advertise: name -> set object
    found,                  \* the set object _services_found holds for a name
    ended,                  \* how each thread's last method call ended
    ops                     \* how many method calls the threads have begun

lifecycle_vars == <<_beacon, thread, outcome, connected_to, port_holder,
                    constructed, started, starts>>
messenger_vars == <<speaker, listener, wire, events, exchanges>>
lock_vars == <<locked_by, at, frame, heap, bucket_of, found, ended, ops>>

vars == <<pc, services_to_advertise, services_found, udp, since_t0,
          discovering, until_t1, poll_left, raised, warned, rpc_in, rpc_out,
          call, calls, hooks, heard, lifecycle_vars, messenger_vars, stop_event,
          lock_vars>>

beacon_vars == <<pc, services_to_advertise, services_found, udp, since_t0,
                 discovering, until_t1, poll_left, raised, warned, heard>>
tables == <<services_to_advertise, services_found>>
timers == <<since_t0, until_t1, poll_left>>
caller_vars == <<call, calls, hooks>>
discovery_vars == <<beacon_vars, rpc_in, rpc_out, caller_vars, stop_event, lock_vars>>
\* what the discovery worker and its callers leave alone
elsewhere == <<lifecycle_vars, messenger_vars, stop_event, lock_vars>>

NoCall == [fn |-> "none"]
\* the locals of a thread that is in no method of the Beacon
NoFrame == [name |-> "", port |-> "", ports |-> 0]
EmptyDict == [n \in {} |-> {}]

\* dict.get(key, default)
get(dict, key, default) == IF key \in DOMAIN dict THEN dict[key] ELSE default

\* a variant that assigns a new bucket: dict[key] = {item}
assign_bucket(dict, key, item) ==
    [k \in DOMAIN dict \cup {key} |-> IF k = key THEN {item} ELSE dict[k]]

\* dict.setdefault(key, set()).add(item)
setdefault_add(dict, key, item) ==
    [k \in DOMAIN dict \cup {key} |->
        IF k = key THEN get(dict, key, {}) \cup {item} ELSE dict[k]]

\* a variant that empties the bucket and keeps its key
keep_key(dict, key) == [k \in DOMAIN dict |-> IF k = key THEN {} ELSE dict[k]]

\* del dict[key]
del(dict, key) == [k \in DOMAIN dict \ {key} |-> dict[k]]

Init ==
    /\ pc = [h \in Hosts |-> "commands"]
    /\ services_to_advertise = [h \in Hosts |-> EmptyDict]
    /\ services_found = [h \in Hosts |-> EmptyDict]
    /\ udp = [h \in Hosts |-> {}]
    /\ since_t0 = [h \in Hosts |-> 0]
    /\ discovering = [h \in Hosts |-> ""]
    /\ until_t1 = [h \in Hosts |-> 0]
    /\ poll_left = [h \in Hosts |-> 0]
    /\ raised = [h \in Hosts |-> ""]
    /\ warned = [h \in Hosts |-> FALSE]
    /\ rpc_in = [h \in Hosts |-> NoMsg]
    /\ rpc_out = [h \in Hosts |-> NoMsg]
    /\ call = [h \in Hosts |-> NoCall]
    /\ calls = 0
    /\ hooks = [h \in Hosts |-> <<>>]
    /\ heard = [h \in Hosts |-> FALSE]
    /\ _beacon = None
    /\ thread = [t \in Threads |-> "idle"]
    /\ outcome = [t \in Threads |-> ""]
    /\ connected_to = [t \in Threads |-> <<>>]
    /\ port_holder = "free"
    /\ constructed = {}
    /\ started = {}
    /\ starts = 0
    /\ speaker = Nobody
    /\ listener = Nobody
    /\ wire = [request |-> NoMsg, reply |-> NoMsg]
    /\ events = <<>>
    /\ exchanges = 0
    /\ stop_event = [h \in Hosts |-> FALSE]
    /\ locked_by = ""
    /\ at = [t \in Threads |-> "idle"]
    /\ frame = [t \in Threads |-> NoFrame]
    /\ heap = <<>>
    /\ bucket_of = EmptyDict
    /\ found = {}
    /\ ended = [t \in Threads |-> ""]
    /\ ops = 0

(* ------------------------------------------------------------ the callers *)
\* _rpc(action, *args): send the request to localhost:rpc_port; the reply is
\* awaited in socket.recv()
rpc(h, action, args) ==
    /\ rpc_in' = [rpc_in EXCEPT ![h] = pack(List(<<action>> \o args))]
    /\ rpc_out' = [rpc_out EXCEPT ![h] = NoMsg]

\* what the caller's _rpc returned: unpack(socket.recv())
Returned(h) == unpack(rpc_out[h])
Blocked(h) == call[h] # NoCall /\ rpc_out[h] = NoMsg
Exited(h) == call[h].fn = "exit"

CanCall(h) ==
    /\ ~Blocked(h)
    /\ ~Exited(h)
    /\ IF h = App THEN calls < MaxCalls ELSE call[h] = NoCall

\* the rest of advertise once _rpc has returned:
\* atexit.register(unadvertise, name, port, ip)
registered(h) ==
    IF call[h].fn = "advertise" /\ rpc_out[h] # NoMsg
    THEN LET sp == split_address(call[h].address)
         IN  Append(hooks[h], [fn |-> "unadvertise",
                               args |-> <<call[h].name, sp[2], sp[1]>>])
    ELSE hooks[h]

\* advertise(name, address)
advertise(h, name, address) ==
    /\ CanCall(h)
    /\ LET sp == split_address(address)
       IN  rpc(h, "advertise", <<name, sp[2], sp[1]>>)
    /\ call' = [call EXCEPT ![h] = [fn |-> "advertise", name |-> name, address |-> address]]
    /\ calls' = IF h = App THEN calls + 1 ELSE calls
    /\ hooks' = [hooks EXCEPT ![h] = registered(h)]
    /\ UNCHANGED <<beacon_vars, elsewhere>>

\* unadvertise(name, address)
unadvertise(h, name, address) ==
    /\ CanCall(h)
    /\ LET sp == split_address(address)
       IN  rpc(h, "unadvertise", <<name, sp[2], sp[1]>>)
    /\ call' = [call EXCEPT ![h] = [fn |-> "unadvertise", name |-> name, address |-> address]]
    /\ calls' = IF h = App THEN calls + 1 ELSE calls
    /\ hooks' = [hooks EXCEPT ![h] = registered(h)]
    /\ UNCHANGED <<beacon_vars, elsewhere>>

\* discover(name, wait_for_secs)
discover(h, name, wait_for_secs) ==
    /\ CanCall(h)
    /\ rpc(h, "discover", <<name, wait_for_secs>>)
    /\ call' = [call EXCEPT ![h] = [fn |-> "discover", name |-> name, wait |-> wait_for_secs]]
    /\ calls' = IF h = App THEN calls + 1 ELSE calls
    /\ hooks' = [hooks EXCEPT ![h] = registered(h)]
    /\ UNCHANGED <<beacon_vars, elsewhere>>

\* the number of positional parameters of unadvertise(name, address)
unadvertise_arity == 2

\* the application process ends normally: atexit calls each registered
\* callback as fn(*args); a call with the wrong number of arguments raises
\* TypeError, which atexit reports and drops
exit(h) ==
    /\ ~Blocked(h)
    /\ ~Exited(h)
    /\ call[h] # NoCall
    /\ LET hs == registered(h)
           callable == { i \in 1..Len(hs) : Len(hs[i].args) = unadvertise_arity }
       IN  /\ hooks' = [hooks EXCEPT ![h] = hs]
           /\ IF callable = {}
              THEN UNCHANGED <<rpc_in, rpc_out>>
              ELSE LET i == CHOOSE k \in callable : \A j \in callable : j <= k
                   IN  rpc(h, hs[i].fn, <<hs[i].args[1], hs[i].args[2], None>>)
    /\ call' = [call EXCEPT ![h] = [fn |-> "exit"]]
    /\ UNCHANGED <<calls, beacon_vars, elsewhere>>

(* ------------------------------------------------------------- the worker *)
Running(h) == pc[h] \in {"commands", "discover", "adverts"}

\* self.rpc.send(pack(result))
send_reply(h, result) ==
    /\ rpc_in' = [rpc_in EXCEPT ![h] = NoMsg]
    /\ rpc_out' = [rpc_out EXCEPT ![h] = pack(result)]

\* an exception leaves check_for_commands and run: the thread ends, no reply
raise(h, exception) ==
    /\ pc' = [pc EXCEPT ![h] = "raised"]
    /\ raised' = [raised EXCEPT ![h] = exception]
    /\ rpc_in' = [rpc_in EXCEPT ![h] = NoMsg]
    /\ UNCHANGED <<rpc_out, udp, timers, heard>>

Segments(h) == unpack(rpc_in[h]).v
Action(h) == lower(Segments(h)[1])
Params(h) == Tail(Segments(h))

\* a variant that sends one datagram for each name, whatever its ports
datagrams_of_names(h, table) ==
    { [payload |-> pack(List(<<service_name, CHOOSE port \in table[service_name] : TRUE>>)),
       source |-> h] : service_name \in DOMAIN table }

\* what advertise_names sends: pack([service_name, service_port]) for each
\* name of the table and each port of its bucket
datagrams(h, table) ==
    UNION { { [payload |-> pack(List(<<service_name, service_port>>)), source |-> h] :
                service_port \in table[service_name] } :
            service_name \in DOMAIN table }

\* an advert for the name, among the datagrams ds
for_awaited_name(name, ds) ==
    \E d \in ds : d.payload.json.t = "list" /\ unpack(d.payload).v[1] = name

\* an advert for the name host g's do_discover waits for, among ds
for_awaited(g, ds) == for_awaited_name(discovering[g], ds)

\* run, after check_for_commands has returned:
\* if time.time() > t0 + interval_secs: advertise_names(); t0 = time.time()
\* and then check_for_adverts starts its poll. A datagram sent to
\* 255.255.255.255 reaches the beacon port of every host of the segment.
then_advertise_names(h, table) ==
    /\ IF since_t0[h] > interval_ticks
       THEN /\ udp' = [g \in Hosts |-> udp[g] \cup datagrams(h, table)]
            /\ since_t0' = [since_t0 EXCEPT ![h] = 0]
            /\ heard' = [g \in Hosts |->
                   \/ heard[g]
                   \/ /\ g # h
                      /\ pc[g] = "discover"
                      /\ until_t1[g] > 0
                      /\ for_awaited(g, datagrams(h, table))]
       ELSE UNCHANGED <<udp, since_t0, heard>>
    /\ poll_left' = [poll_left EXCEPT ![h] = finder_timeout_ticks]
    /\ pc' = [pc EXCEPT ![h] = "adverts"]

\* a variant that never finds the event set
never_stopped(h) == FALSE

\* self._stop_event.wait(0), the test of run's loop
stopped(h) == stop_event[h]

\* check_for_commands: rpc.recv(NOBLOCK) raises EAGAIN, nothing is waiting
check_for_commands_none(h) ==
    /\ pc[h] = "commands"
    /\ ~stopped(h)
    /\ rpc_in[h] = NoMsg
    /\ then_advertise_names(h, services_to_advertise[h])
    /\ UNCHANGED <<tables, discovering, until_t1, raised, warned,
                   rpc_in, rpc_out, caller_vars, elsewhere>>

\* check_for_commands: getattr(self, "do_" + action.lower(), None) finds nothing
not_implemented(h) ==
    /\ pc[h] = "commands"
    /\ ~stopped(h)
    /\ rpc_in[h] # NoMsg
    /\ Action(h) \notin {"advertise", "unadvertise", "discover"}
    /\ raise(h, "NotImplementedError")
    /\ UNCHANGED <<tables, discovering, warned, caller_vars, elsewhere>>

\* check_for_commands calling do_advertise and sending its result
do_advertise(h) ==
    /\ pc[h] = "commands"
    /\ ~stopped(h)
    /\ rpc_in[h] # NoMsg
    /\ Action(h) = "advertise"
    /\ LET name == Params(h)[1]
           port == Params(h)[2]
           table == setdefault_add(services_to_advertise[h], name, port)
       IN  /\ services_to_advertise' = [services_to_advertise EXCEPT ![h] = table]
           /\ send_reply(h, Str(name \o "!!"))
           /\ then_advertise_names(h, table)
    /\ warned' = [warned EXCEPT ![h] = FALSE]
    /\ UNCHANGED <<services_found, discovering, until_t1, raised, caller_vars, elsewhere>>

\* check_for_commands calling do_unadvertise and sending its result
do_unadvertise(h) ==
    /\ pc[h] = "commands"
    /\ ~stopped(h)
    /\ rpc_in[h] # NoMsg
    /\ Action(h) = "unadvertise"
    /\ LET name == Params(h)[1]
           port == Params(h)[2]
           ports == get(services_to_advertise[h], name, {})
           table == IF ports \ {port} = {}
                    THEN del(services_to_advertise[h], name)
                    ELSE [services_to_advertise[h] EXCEPT ![name] = ports \ {port}]
       IN  IF ports = {}
           THEN \* logger.warn("Not currently advertising ..."); return
                /\ warned' = [warned EXCEPT ![h] = TRUE]
                /\ send_reply(h, None)
                /\ then_advertise_names(h, services_to_advertise[h])
                /\ UNCHANGED <<services_to_advertise, raised>>
           ELSE IF port \notin ports
           THEN \* ports.remove(port) raises KeyError
                /\ raise(h, "KeyError")
                /\ UNCHANGED <<services_to_advertise, warned>>
           ELSE \* ports.remove(port); if not ports: del ...[name]
                /\ services_to_advertise' = [services_to_advertise EXCEPT ![h] = table]
                /\ warned' = [warned EXCEPT ![h] = FALSE]
                /\ send_reply(h, None)
                /\ then_advertise_names(h, table)
                /\ UNCHANGED raised
    /\ UNCHANGED <<services_found, discovering, until_t1, caller_vars, elsewhere>>

\* a variant that waits for the magnitude of wait_for_secs
deadline_of_magnitude(wait_for_secs) ==
    IF wait_for_secs < 0 THEN 0 - wait_for_secs ELSE wait_for_secs

\* t1 - time.time() when do_discover sets t1 = time.time() + wait_for_secs
deadline(wait_for_secs) == wait_for_secs

\* check_for_commands calling do_discover: t1 = time.time() + wait_for_secs
do_discover(h) ==
    /\ pc[h] = "commands"
    /\ ~stopped(h)
    /\ rpc_in[h] # NoMsg
    /\ Action(h) = "discover"
    /\ discovering' = [discovering EXCEPT ![h] = Params(h)[1]]
    /\ until_t1' = [until_t1 EXCEPT ![h] = deadline(Params(h)[2])]
    /\ heard' = [heard EXCEPT ![h] =
           Params(h)[2] > 0 /\ for_awaited_name(Params(h)[1], udp[h])]
    /\ rpc_in' = [rpc_in EXCEPT ![h] = NoMsg]
    /\ pc' = [pc EXCEPT ![h] = "discover"]
    /\ UNCHANGED <<tables, udp, since_t0, poll_left, raised, warned, rpc_out, caller_vars, elsewhere>>

\* a variant that looks in every bucket, whatever the name
discovered_under_any_name(h) ==
    UNION { services_found[h][name] : name \in DOMAIN services_found[h] }

\* self._services_found.get(name) in the loop of do_discover
discovered(h) == get(services_found[h], discovering[h], {})

\* the loop of do_discover leaves with break: random.choice(list(discovered))
do_discover_found(h) ==
    /\ pc[h] = "discover"
    /\ discovered(h) # {}
    /\ \E service \in discovered(h) :
           rpc_out' = [rpc_out EXCEPT ![h] = pack(Tuple(service))]
    /\ then_advertise_names(h, services_to_advertise[h])
    /\ warned' = [warned EXCEPT ![h] = FALSE]
    /\ discovering' = [discovering EXCEPT ![h] = ""]
    /\ until_t1' = [until_t1 EXCEPT ![h] = 0]
    /\ UNCHANGED <<tables, raised, rpc_in, caller_vars, elsewhere>>

\* the loop of do_discover leaves with return None: time.time() > t1
do_discover_timeout(h) ==
    /\ pc[h] = "discover"
    /\ discovered(h) = {}
    /\ until_t1[h] < 0
    /\ rpc_out' = [rpc_out EXCEPT ![h] = pack(None)]
    /\ then_advertise_names(h, services_to_advertise[h])
    /\ warned' = [warned EXCEPT ![h] = TRUE]
    /\ discovering' = [discovering EXCEPT ![h] = ""]
    /\ until_t1' = [until_t1 EXCEPT ![h] = 0]
    /\ UNCHANGED <<tables, raised, rpc_in, caller_vars, elsewhere>>

\* Beacon.beacon_message_size
beacon_message_size == 256

\* bytes that are not the JSON text of anything
Undecodable == [json |-> [t |-> "invalid"]]

RECURSIVE text_size(_)
\* the length of json.dumps of a list of texts: ["name", "port"]
text_size(texts) ==
    IF texts = <<>> THEN 0
    ELSE Len(Head(texts)) + 2 + (IF Len(texts) > 1 THEN 2 ELSE 0) + text_size(Tail(texts))

\* the number of bytes of a datagram's payload
encoded_size(payload) ==
    IF payload.json.t = "list" THEN text_size(payload.json.v) + 2 ELSE 1

\* socket.recvfrom(beacon_message_size): the first beacon_message_size bytes;
\* JSON text cut short is not JSON text
recvfrom(d) ==
    IF encoded_size(d.payload) > beacon_message_size THEN Undecodable ELSE d.payload

\* service_name, service_port = unpack(message) finds a pair to assign
is_pair(message) == message.json.t = "list" /\ Len(message.json.v) = 2

\* a variant that takes the address the datagram was sent to
destination(d) == "255.255.255.255"

\* service_ip, _ = source
origin(d) == d.source

\* check_for_adverts: the poll finds a datagram, which is received and
\* recorded; json.loads or the assignment of the pair raises ValueError when
\* the bytes are not the JSON text of a pair, which leaves run
check_for_adverts(h) ==
    /\ pc[h] = "adverts"
    /\ \E d \in udp[h] :
          LET message == recvfrom(d)
          IN  /\ udp' = [udp EXCEPT ![h] = @ \ {d}]
              /\ IF is_pair(message)
                 THEN LET service_name == unpack(message).v[1]
                          service_port == unpack(message).v[2]
                          service_ip == origin(d)
                      IN  /\ services_found' = [services_found EXCEPT
                                 ![h] = setdefault_add(@, service_name,
                                                       <<service_ip, service_port>>)]
                          /\ pc' = [pc EXCEPT ![h] = "commands"]
                          /\ UNCHANGED raised
                 ELSE /\ pc' = [pc EXCEPT ![h] = "raised"]
                      /\ raised' = [raised EXCEPT ![h] = "ValueError"]
                      /\ UNCHANGED services_found
    /\ poll_left' = [poll_left EXCEPT ![h] = 0]
    /\ UNCHANGED <<services_to_advertise, since_t0, discovering, until_t1,
                   warned, heard, rpc_in, rpc_out, caller_vars, elsewhere>>

\* a variant in which a receive phase that reads nothing forgets what the
\* beacon advertises
check_for_adverts_forgets(h) ==
    /\ pc[h] = "adverts"
    /\ udp[h] = {}
    /\ poll_left[h] = 0
    /\ pc' = [pc EXCEPT ![h] = "commands"]
    /\ services_to_advertise' = [services_to_advertise EXCEPT ![h] = EmptyDict]
    /\ UNCHANGED <<services_found, udp, timers, discovering, raised, warned, heard,
                   rpc_in, rpc_out, caller_vars, elsewhere>>

\* check_for_adverts: the poll ends after finder_timeout_secs with nothing to read
check_for_adverts_none(h) ==
    /\ pc[h] = "adverts"
    /\ udp[h] = {}
    /\ poll_left[h] = 0
    /\ pc' = [pc EXCEPT ![h] = "commands"]
    /\ UNCHANGED <<tables, udp, timers, discovering, raised, warned, heard,
                   rpc_in, rpc_out, caller_vars, elsewhere>>

\* a worker waits only in the poll of check_for_adverts and in do_discover's loop
Waiting(h) ==
    \/ pc[h] = "adverts" /\ udp[h] = {} /\ poll_left[h] > 0
    \/ pc[h] = "discover" /\ discovered(h) = {} /\ until_t1[h] >= 0

Min(a, b) == IF a < b THEN a ELSE b

\* half a second passes while every running worker waits
Tick ==
    /\ \A h \in Hosts : Running(h) => Waiting(h)
    /\ \E h \in Hosts : Running(h)
    /\ since_t0' = [h \in Hosts |->
           IF Running(h) THEN Min(since_t0[h] + 1, interval_ticks + 1) ELSE since_t0[h]]
    /\ poll_left' = [h \in Hosts |->
           IF pc[h] = "adverts" THEN poll_left[h] - 1 ELSE poll_left[h]]
    /\ until_t1' = [h \in Hosts |->
           IF pc[h] = "discover" THEN until_t1[h] - 1 ELSE until_t1[h]]
    /\ UNCHANGED <<tables, udp, pc, discovering, raised, warned, heard,
                   rpc_in, rpc_out, caller_vars, elsewhere>>

\* a client of the control port that is not this library sends a verb of its own
foreign_request(h, action) ==
    /\ CanCall(h)
    /\ rpc(h, action, <<"a", "1", None>>)
    /\ call' = [call EXCEPT ![h] = [fn |-> "foreign", action |-> action]]
    /\ calls' = IF h = App THEN calls + 1 ELSE calls
    /\ hooks' = [hooks EXCEPT ![h] = registered(h)]
    /\ UNCHANGED <<beacon_vars, elsewhere>>

\* the applications call the API, the workers run, time passes
Next ==
    \/ \E name \in Names, address \in Addresses : advertise(App, name, address)
    \/ advertise(Peer, "a", <<"1">>)
    \/ \E name \in Names, address \in Addresses : unadvertise(App, name, address)
    \/ \E name \in Names, wait \in Waits : discover(App, name, wait)
    \/ \E h \in Hosts : check_for_commands_none(h)
    \/ \E h \in Hosts : do_advertise(h)
    \/ \E h \in Hosts : do_unadvertise(h)
    \/ \E h \in Hosts : do_discover(h)
    \/ \E h \in Hosts : do_discover_found(h)
    \/ \E h \in Hosts : do_discover_timeout(h)
    \/ \E h \in Hosts : check_for_adverts(h)
    \/ \E h \in Hosts : check_for_adverts_none(h)
    \/ Tick

Spec == Init /\ [][Next]_vars

\* the verbs a client of the control port that is not this library sends
ForeignVerbs == {"Advertise", "STOP", "list"}

\* the applications advertise, and the one on h1 may send other verbs to the
\* control port
NextVerbs ==
    \/ \E name \in Names, address \in Addresses : advertise(App, name, address)
    \/ advertise(Peer, "a", <<"1">>)
    \/ \E action \in ForeignVerbs : foreign_request(App, action)
    \/ \E h \in Hosts : check_for_commands_none(h)
    \/ \E h \in Hosts : do_advertise(h)
    \/ \E h \in Hosts : not_implemented(h)
    \/ \E h \in Hosts : check_for_adverts(h)
    \/ \E h \in Hosts : check_for_adverts_none(h)
    \/ Tick

SpecVerbs == Init /\ [][NextVerbs]_vars

RECURSIVE Repeat(_, _)
Repeat(text, n) == IF n = 0 THEN "" ELSE text \o Repeat(text, n - 1)

\* a service name whose advert does not fit in beacon_message_size bytes
LongName == Repeat("nnnnnnnnnn", 25)

\* a program that is not a beacon broadcasts to the beacon port
stray_datagram(h) ==
    /\ [payload |-> Undecodable, source |-> "h3"] \notin udp[h]
    /\ udp' = [udp EXCEPT ![h] = @ \cup {[payload |-> Undecodable, source |-> "h3"]}]
    /\ UNCHANGED <<pc, tables, timers, discovering, raised, warned, heard,
                   rpc_in, rpc_out, caller_vars, elsewhere>>

\* the applications advertise, one of them under a long name, and other
\* programs broadcast on the segment
NextStray ==
    \/ \E name \in Names, address \in Addresses : advertise(App, name, address)
    \/ advertise(Peer, LongName, <<"1">>)
    \/ \E h \in Hosts : stray_datagram(h)
    \/ \E h \in Hosts : check_for_commands_none(h)
    \/ \E h \in Hosts : do_advertise(h)
    \/ \E h \in Hosts : check_for_adverts(h)
    \/ \E h \in Hosts : check_for_adverts_none(h)
    \/ Tick

SpecStray == Init /\ [][NextStray]_vars

\* Beacon.stop(): self._stop_event.set()
stop(h) ==
    /\ ~stop_event[h]
    /\ stop_event' = [stop_event EXCEPT ![h] = TRUE]
    /\ UNCHANGED <<beacon_vars, rpc_in, rpc_out, caller_vars,
                   lifecycle_vars, messenger_vars, lock_vars>>

\* run: the loop's test finds the event set; "Ending discovery"
run_ends(h) ==
    /\ pc[h] = "commands"
    /\ stopped(h)
    /\ pc' = [pc EXCEPT ![h] = "ended"]
    /\ UNCHANGED <<tables, udp, timers, discovering, raised, warned, heard,
                   rpc_in, rpc_out, caller_vars, elsewhere>>

\* what the worker of host h does next, whatever it is
worker(h) ==
    \/ check_for_commands_none(h)
    \/ do_advertise(h)
    \/ do_discover(h)
    \/ do_discover_found(h)
    \/ do_discover_timeout(h)
    \/ check_for_adverts(h)
    \/ check_for_adverts_none(h)
    \/ run_ends(h)

\* the application on h1 advertises and discovers, and stop() may be called
\* on either beacon at any time
NextStop ==
    \/ \E name \in Names : advertise(App, name, <<"1">>)
    \/ \E name \in Names, wait \in Waits : discover(App, name, wait)
    \/ \E h \in Hosts : stop(h)
    \/ \E h \in Hosts : check_for_commands_none(h)
    \/ \E h \in Hosts : do_advertise(h)
    \/ \E h \in Hosts : do_discover(h)
    \/ \E h \in Hosts : do_discover_found(h)
    \/ \E h \in Hosts : do_discover_timeout(h)
    \/ \E h \in Hosts : check_for_adverts(h)
    \/ \E h \in Hosts : check_for_adverts_none(h)
    \/ \E h \in Hosts : run_ends(h)
    \/ Tick

\* a thread that can run does run, and time passes
SpecStop ==
    /\ Init
    /\ [][NextStop]_vars
    /\ WF_vars(Tick)
    /\ \A h \in Hosts : WF_vars(worker(h))

\* the same, and the application on h1 may end
NextExit ==
    \/ Next
    \/ exit(App)

SpecExit == Init /\ [][NextExit]_vars

(* ----------------------------------------------------------- start_beacon *)
\* the number of API calls the threads of the process begin in one behaviour
MaxStarts == 3

\* Beacon.rpc_port
rpc_port == 9998

\* _remote_beacon = object()
_remote_beacon == [t |-> "object"]
\* the Beacon object whose construction thread `by` began
Beacon(by) == [t |-> "Beacon", by |-> by]

\* a thread begins an API call and enters start_beacon
api_call(t) ==
    /\ thread[t] = "idle"
    /\ starts < MaxStarts
    /\ starts' = starts + 1
    /\ thread' = [thread EXCEPT ![t] = "if"]
    /\ outcome' = [outcome EXCEPT ![t] = ""]
    /\ UNCHANGED <<_beacon, connected_to, port_holder, constructed, started,
                   discovery_vars, messenger_vars>>

\* a variant that tries again whenever no Beacon of this process is held
constructs_unless_held(handle) == handle.t # "Beacon"

\* the test of start_beacon: _beacon is None
constructs(handle) == handle = None

\* if _beacon is None: ... ; otherwise start_beacon returns at once
start_beacon_if(t) ==
    /\ thread[t] = "if"
    /\ thread' = [thread EXCEPT ![t] = IF constructs(_beacon) THEN "Beacon()" ELSE "_rpc"]
    /\ UNCHANGED <<_beacon, outcome, connected_to, port_holder, constructed, started, starts,
                   discovery_vars, messenger_vars>>

\* Beacon(): __init__ binds the beacon port and the control port, which
\* raises when another socket holds one of them
start_beacon_try(t) ==
    /\ thread[t] = "Beacon()"
    /\ IF port_holder = "free"
       THEN /\ port_holder' = t
            /\ constructed' = constructed \cup {Beacon(t)}
            /\ thread' = [thread EXCEPT ![t] = "_beacon ="]
       ELSE /\ thread' = [thread EXCEPT ![t] = "except"]
            /\ UNCHANGED <<port_holder, constructed>>
    /\ UNCHANGED <<_beacon, outcome, connected_to, started, starts,
                   discovery_vars, messenger_vars>>

\* _beacon = <the object Beacon() returned>
start_beacon_assign(t) ==
    /\ thread[t] = "_beacon ="
    /\ _beacon' = Beacon(t)
    /\ thread' = [thread EXCEPT ![t] = "else"]
    /\ UNCHANGED <<outcome, connected_to, port_holder, constructed, started, starts,
                   discovery_vars, messenger_vars>>

\* except: _beacon = _remote_beacon, and start_beacon returns
start_beacon_except(t) ==
    /\ thread[t] = "except"
    /\ _beacon' = _remote_beacon
    /\ thread' = [thread EXCEPT ![t] = "_rpc"]
    /\ UNCHANGED <<outcome, connected_to, port_holder, constructed, started, starts,
                   discovery_vars, messenger_vars>>

\* else: _beacon.start(), on whatever the global names now. object() has no
\* start; Thread.start() may be called once per thread object
start_beacon_else(t) ==
    /\ thread[t] = "else"
    /\ IF _beacon.t # "Beacon"
       THEN /\ outcome' = [outcome EXCEPT ![t] = "AttributeError"]
            /\ thread' = [thread EXCEPT ![t] = "idle"]
            /\ UNCHANGED started
       ELSE IF _beacon \in started
       THEN /\ outcome' = [outcome EXCEPT ![t] = "RuntimeError"]
            /\ thread' = [thread EXCEPT ![t] = "idle"]
            /\ UNCHANGED started
       ELSE /\ started' = started \cup {_beacon}
            /\ thread' = [thread EXCEPT ![t] = "_rpc"]
            /\ UNCHANGED outcome
    /\ UNCHANGED <<_beacon, connected_to, port_holder, constructed, starts,
                   discovery_vars, messenger_vars>>

\* _rpc: socket.connect("tcp://localhost:%s" % Beacon.rpc_port) and the request
rpc_connect(t) ==
    /\ thread[t] = "_rpc"
    /\ connected_to' = [connected_to EXCEPT ![t] = <<"localhost", rpc_port>>]
    /\ outcome' = [outcome EXCEPT ![t] = "requested"]
    /\ thread' = [thread EXCEPT ![t] = "idle"]
    /\ UNCHANGED <<_beacon, port_holder, constructed, started, starts,
                   discovery_vars, messenger_vars>>

\* another process of the machine binds the ports (its own beacon)
other_process_binds ==
    /\ port_holder = "free"
    /\ port_holder' = "other process"
    /\ UNCHANGED <<_beacon, thread, outcome, connected_to, constructed, started, starts,
                   discovery_vars, messenger_vars>>

\* the other process ends and its ports are free again
other_process_exits ==
    /\ port_holder = "other process"
    /\ port_holder' = "free"
    /\ UNCHANGED <<_beacon, thread, outcome, connected_to, constructed, started, starts,
                   discovery_vars, messenger_vars>>

\* the threads of one process call the API in any interleaving
NextStart ==
    \/ \E t \in Threads : api_call(t)
    \/ \E t \in Threads : start_beacon_if(t)
    \/ \E t \in Threads : start_beacon_try(t)
    \/ \E t \in Threads : start_beacon_assign(t)
    \/ \E t \in Threads : start_beacon_except(t)
    \/ \E t \in Threads : start_beacon_else(t)
    \/ \E t \in Threads : rpc_connect(t)
    \/ other_process_binds
    \/ other_process_exits

SpecStart == Init /\ [][NextStart]_vars

(* -------------------------------------------------------------- messenger *)
\* the number of exchanges begun in one behaviour
MaxExchanges == 2

\* nw0.messenger.EMPTY: the zero-payload sentinel, distinct from null
EMPTY == [t |-> "EMPTY"]
ZeroLength == [json |-> [t |-> "zero length"]]
\* what the speakers send: nothing, null, a text
Messages == {EMPTY, None, Str("abc123")}

\* a variant that writes null as the empty encoding too
serialise_null_as_empty(message) ==
    IF message \in {EMPTY, None} THEN ZeroLength ELSE [json |-> message]

\* nw0.sockets._serialise: the empty encoding for EMPTY, else the JSON text
_serialise(message) == IF message = EMPTY THEN ZeroLength ELSE [json |-> message]

\* a variant that reads the empty encoding as null
unserialise_empty_as_null(bytes) == IF bytes = ZeroLength THEN None ELSE bytes.json

\* nw0.sockets._unserialise
_unserialise(bytes) == IF bytes = ZeroLength THEN EMPTY ELSE bytes.json

\* a requester connects to the address and sends its message
request(who, message) ==
    /\ speaker = Nobody
    /\ exchanges < MaxExchanges
    /\ exchanges' = exchanges + 1
    /\ speaker' = [Nobody EXCEPT !.who = who, !.pc = "waiting", !.message = message]
    /\ wire' = [wire EXCEPT !.request = _serialise(message)]
    /\ events' = Append(events, "send")
    /\ UNCHANGED <<listener, discovery_vars, lifecycle_vars>>

\* the requester reads the reply it waits for
reply_read(who) ==
    /\ speaker.who = who
    /\ speaker.pc = "waiting"
    /\ wire.reply # NoMsg
    /\ speaker' = [speaker EXCEPT !.pc = "returned", !.reply = _unserialise(wire.reply)]
    /\ wire' = [wire EXCEPT !.reply = NoMsg]
    /\ events' = Append(events, "return")
    /\ UNCHANGED <<listener, exchanges, discovery_vars, lifecycle_vars>>

\* send_message_to(address, message): connect, send encode(message), wait
send_message_to(message) == request("nw0", message)

\* send_message_to: the reply arrives, decode and return it
send_message_to_returns == reply_read("nw0")

\* send_message_to: wait_for_reply_s elapses, fail with socket-timed-out; the
\* requester was scoped to the call
send_message_to_times_out ==
    /\ speaker.who = "nw0"
    /\ speaker.pc = "waiting"
    /\ wire.reply = NoMsg
    /\ speaker' = [speaker EXCEPT !.pc = "socket-timed-out"]
    /\ UNCHANGED <<listener, wire, events, exchanges, discovery_vars, lifecycle_vars>>

\* SupportThread.support_test_send_reply_to and support_test_wait_for_message_from:
\* socket.connect; socket.send(_serialise(message))
support_test_send_reply_to(message) == request("support", message)

\* ... reply = _unserialise(socket.recv()); queue.put(reply)
support_test_send_reply_to_recv == reply_read("support")

\* wait_for_message_from(address, wait_for_s, autoreply): a message is there;
\* decode it, reply EMPTY at once if autoreply, return it
wait_for_message_from(autoreply) ==
    /\ listener.who \in {"", "nw0"}
    /\ listener.pc \in {"idle", "null"}
    /\ wire.request # NoMsg
    /\ listener' = [Nobody EXCEPT !.who = "nw0",
                                  !.pc = IF autoreply THEN "replied" ELSE "owes reply",
                                  !.message = _unserialise(wire.request),
                                  !.reply = IF autoreply THEN EMPTY ELSE None,
                                  !.autoreply = autoreply]
    /\ wire' = [request |-> NoMsg,
                reply |-> IF autoreply /\ speaker.pc = "waiting"
                          THEN _serialise(EMPTY) ELSE wire.reply]
    /\ events' = events \o (IF autoreply THEN <<"receive", "reply">> ELSE <<"receive">>)
    /\ UNCHANGED <<speaker, exchanges, discovery_vars, lifecycle_vars>>

\* wait_for_message_from: wait_for_s elapses with no message: return null
wait_for_message_from_times_out ==
    /\ listener = Nobody
    /\ wire.request = NoMsg
    /\ listener' = [Nobody EXCEPT !.who = "nw0", !.pc = "null"]
    /\ UNCHANGED <<speaker, wire, events, exchanges, discovery_vars, lifecycle_vars>>

\* send_reply_to(address, reply): send encode(reply) on the replier bound to
\* the address; a requester that has gone does not read it
send_reply_to(reply) ==
    /\ listener.who = "nw0"
    /\ listener.pc = "owes reply"
    /\ listener' = [listener EXCEPT !.pc = "replied", !.reply = reply]
    /\ wire' = [wire EXCEPT !.reply = IF speaker.pc = "waiting"
                                      THEN _serialise(reply) ELSE wire.reply]
    /\ events' = Append(events, "reply")
    /\ UNCHANGED <<speaker, exchanges, discovery_vars, lifecycle_vars>>

\* SupportThread.support_test_send_message_to: bind;
\* message = _unserialise(socket.recv()); socket.send(_serialise(message))
support_test_send_message_to ==
    /\ listener = Nobody
    /\ wire.request # NoMsg
    /\ LET message == _unserialise(wire.request)
       IN  /\ listener' = [Nobody EXCEPT !.who = "support", !.pc = "replied",
                                         !.message = message, !.reply = message]
           /\ wire' = [request |-> NoMsg,
                       reply |-> IF speaker.pc = "waiting"
                                 THEN _serialise(message) ELSE wire.reply]
    /\ events' = events \o <<"receive", "reply">>
    /\ UNCHANGED <<speaker, exchanges, discovery_vars, lifecycle_vars>>

\* the next test: address = nw0.core.address(), a new address with new sockets
next_address ==
    /\ speaker.pc \in {"returned", "socket-timed-out"}
    /\ listener.pc # "owes reply"
    /\ speaker' = Nobody
    /\ listener' = Nobody
    /\ wire' = [request |-> NoMsg, reply |-> NoMsg]
    /\ events' = <<>>
    /\ UNCHANGED <<exchanges, discovery_vars, lifecycle_vars>>

\* one speaker and one listener at one address, either end the library's
\* primitive or the test's support thread
NextMsg ==
    \/ \E message \in Messages : send_message_to(message)
    \/ send_message_to_returns
    \/ send_message_to_times_out
    \/ \E message \in Messages : support_test_send_reply_to(message)
    \/ support_test_send_reply_to_recv
    \/ \E autoreply \in BOOLEAN : wait_for_message_from(autoreply)
    \/ wait_for_message_from_times_out
    \/ \E reply \in Messages : send_reply_to(reply)
    \/ support_test_send_message_to
    \/ next_address

SpecMsg == Init /\ [][NextMsg]_vars

(* ----------------------------------------------------------- Beacon._lock *)
\* Threads t1 and t2 run methods of one Beacon statement by statement: the
\* worker, which calls them from check_for_commands and run, and any other
\* thread of the process that calls them on the Beacon object. All calls are
\* for one service name; a bucket is a set object that the table and the
\* locals of the methods refer to.

\* the number of method calls the threads begin in one behaviour
MaxOps == 3

Methods == {"do_advertise", "do_unadvertise", "do_discover", "check_for_adverts"}

\* what the lock model leaves alone
not_lock_vars == <<beacon_vars, rpc_in, rpc_out, caller_vars, stop_event,
                   lifecycle_vars, messenger_vars>>

\* the content of the set object a local refers to; 0 is the new set() that
\* get(name, set()) made
content(id) == IF id = 0 THEN {} ELSE heap[id]

\* a thread calls a method of the Beacon and comes to its first `with self._lock:`
enter(t, method, port) ==
    /\ at[t] = "idle"
    /\ ops < MaxOps
    /\ ops' = ops + 1
    /\ at' = [at EXCEPT ![t] = method \o ": with"]
    /\ frame' = [frame EXCEPT ![t] = [name |-> "a", port |-> port, ports |-> 0]]
    /\ ended' = [ended EXCEPT ![t] = ""]
    /\ UNCHANGED <<locked_by, heap, bucket_of, found, not_lock_vars>>

\* the first statement inside each `with self._lock:`
inside(statement) ==
    CASE statement = "do_advertise: with" -> "do_advertise: add"
      [] statement = "do_unadvertise: with" -> "do_unadvertise: get"
      [] statement = "do_unadvertise: with again" -> "do_unadvertise: remove"
      [] statement = "do_discover: with" -> "do_discover: get"
      [] statement = "check_for_adverts: with" -> "check_for_adverts: add"

\* with self._lock: the lock is free and the thread takes it
acquire(t) ==
    /\ at[t] \in {"do_advertise: with", "do_unadvertise: with", "do_unadvertise: with again",
                  "do_discover: with", "check_for_adverts: with"}
    /\ locked_by = ""
    /\ locked_by' = t
    /\ at' = [at EXCEPT ![t] = inside(at[t])]
    /\ UNCHANGED <<frame, heap, bucket_of, found, ended, ops, not_lock_vars>>

\* the thread leaves the method
return(t, how) ==
    /\ at' = [at EXCEPT ![t] = "idle"]
    /\ frame' = [frame EXCEPT ![t] = NoFrame]
    /\ ended' = [ended EXCEPT ![t] = how]

\* do_advertise: self._services_to_advertise.setdefault(name, set()).add(port)
lock_do_advertise(t) ==
    /\ at[t] = "do_advertise: add"
    /\ LET name == frame[t].name
       IN  IF name \in DOMAIN bucket_of
           THEN /\ heap' = [heap EXCEPT ![bucket_of[name]] = @ \cup {frame[t].port}]
                /\ UNCHANGED bucket_of
           ELSE /\ heap' = Append(heap, {frame[t].port})
                /\ bucket_of' = [n \in {name} |-> Len(heap) + 1]
    /\ locked_by' = ""
    /\ return(t, "returned")
    /\ UNCHANGED <<found, ops, not_lock_vars>>

\* do_unadvertise: ports = self._services_to_advertise.get(name, set())
lock_do_unadvertise_get(t) ==
    /\ at[t] = "do_unadvertise: get"
    /\ frame' = [frame EXCEPT ![t].ports = get(bucket_of, frame[t].name, 0)]
    /\ locked_by' = ""
    /\ at' = [at EXCEPT ![t] = "do_unadvertise: if not ports"]
    /\ UNCHANGED <<heap, bucket_of, found, ended, ops, not_lock_vars>>

\* do_unadvertise: if not ports: logger.warn(...); return
lock_do_unadvertise_if(t) ==
    /\ at[t] = "do_unadvertise: if not ports"
    /\ IF content(frame[t].ports) = {}
       THEN return(t, "warned")
       ELSE /\ at' = [at EXCEPT ![t] = "do_unadvertise: with again"]
            /\ UNCHANGED <<frame, ended>>
    /\ UNCHANGED <<locked_by, heap, bucket_of, found, ops, not_lock_vars>>

\* do_unadvertise: ports.remove(port); if not ports: del ...[name]; either
\* may raise KeyError, and leaving the with statement releases the lock
lock_do_unadvertise_remove(t) ==
    /\ at[t] = "do_unadvertise: remove"
    /\ LET id == frame[t].ports
           name == frame[t].name
           left == content(id) \ {frame[t].port}
       IN  IF frame[t].port \notin content(id)
           THEN /\ return(t, "KeyError")
                /\ UNCHANGED <<heap, bucket_of>>
           ELSE /\ heap' = [heap EXCEPT ![id] = left]
                /\ IF left # {}
                   THEN return(t, "returned") /\ UNCHANGED bucket_of
                   ELSE IF name \in DOMAIN bucket_of
                   THEN return(t, "returned") /\ bucket_of' = del(bucket_of, name)
                   ELSE return(t, "KeyError") /\ UNCHANGED bucket_of
    /\ locked_by' = ""
    /\ UNCHANGED <<found, ops, not_lock_vars>>

\* do_discover: discovered = self._services_found.get(name); if discovered:
\* break; with a wait that is over the method returns None
lock_do_discover_get(t) ==
    /\ at[t] = "do_discover: get"
    /\ IF found # {}
       THEN /\ at' = [at EXCEPT ![t] = "do_discover: list"]
            /\ UNCHANGED <<frame, ended>>
       ELSE return(t, "returned None")
    /\ locked_by' = ""
    /\ UNCHANGED <<heap, bucket_of, found, ops, not_lock_vars>>

\* do_discover: services = list(discovered); return random.choice(services)
lock_do_discover_list(t) ==
    /\ at[t] = "do_discover: list"
    /\ found # {}
    /\ return(t, "returned an endpoint")
    /\ UNCHANGED <<locked_by, heap, bucket_of, found, ops, not_lock_vars>>

\* check_for_adverts:
\* self._services_found.setdefault(service_name, set()).add((service_ip, service_port))
lock_check_for_adverts(t) ==
    /\ at[t] = "check_for_adverts: add"
    /\ found' = found \cup {<<Peer, frame[t].port>>}
    /\ locked_by' = ""
    /\ return(t, "returned")
    /\ UNCHANGED <<heap, bucket_of, ops, not_lock_vars>>

\* the threads call the methods in any interleaving of their statements
NextLock ==
    \/ \E t \in Threads, method \in Methods, port \in {"1", "2"} : enter(t, method, port)
    \/ \E t \in Threads : acquire(t)
    \/ \E t \in Threads : lock_do_advertise(t)
    \/ \E t \in Threads : lock_do_unadvertise_get(t)
    \/ \E t \in Threads : lock_do_unadvertise_if(t)
    \/ \E t \in Threads : lock_do_unadvertise_remove(t)
    \/ \E t \in Threads : lock_do_discover_get(t)
    \/ \E t \in Threads : lock_do_discover_list(t)
    \/ \E t \in Threads : lock_check_for_adverts(t)

SpecLock == Init /\ [][NextLock]_vars

(* ----------------------------------------------------------------- claims *)
\* the request at the head of host h's control socket is for this verb
Dispatching(h, verb) == pc[h] = "commands" /\ rpc_in[h] # NoMsg /\ Action(h) = verb

\* the step takes host h's waiting request off the control socket
Handled(h) == rpc_in[h] # NoMsg /\ rpc_in'[h] = NoMsg

\* the step sends host h's caller its reply
Replied(h) == rpc_out[h] = NoMsg /\ rpc_out'[h] # NoMsg

\* C1: a discover with a positive wait whose awaited name reached the socket
\* of its beacon before the deadline returns an endpoint, not null.
C1_DiscoverReturnsHeardAdvert ==
    \A h \in Hosts :
        ( /\ call[h].fn = "discover"
          /\ call[h].wait > 0
          /\ rpc_out[h] # NoMsg
          /\ heard[h] )
        => Returned(h) # None

\* C2: what host h1 advertises is in the running peer's discovered set once
\* more than 2 * interval_secs have passed since advertise returned. (Every
\* entry of h1's table was acknowledged before the discover now in progress
\* was issued, so at least the time this discover has waited has passed.)
C2_PeerObservesWithinTwoIntervals ==
    ( /\ pc[App] = "discover"
      /\ call[App].fn = "discover"
      /\ call[App].wait - until_t1[App] > 2 * interval_ticks
      /\ Running(Peer) )
    => \A name \in DOMAIN services_to_advertise[App] :
          \A port \in services_to_advertise[App][name] :
              <<App, port>> \in get(services_found[Peer], name, {})

\* C3: when a discover request is dispatched, every port the same beacon
\* advertises under that name was broadcast and received by the cycle that
\* handled its advertise request: it is in the discovered set.
C3_SelfDiscoveryInOneTick ==
    \A h \in Hosts :
        Dispatching(h, "discover")
        => \A port \in get(services_to_advertise[h], Params(h)[1], {}) :
               <<h, port>> \in get(services_found[h], Params(h)[1], {})

\* C4: handling advertise(name, port, ip) adds port to the bucket of name,
\* creating it if absent, leaves every other bucket as it was and replies
\* name followed by "!!".
C4_AdvertiseAddsPort ==
    [][ \A h \in Hosts :
          (Dispatching(h, "advertise") /\ Handled(h))
          => LET name == Params(h)[1]
                 port == Params(h)[2]
                 old == services_to_advertise[h]
                 new == services_to_advertise'[h]
             IN  /\ DOMAIN new = DOMAIN old \cup {name}
                 /\ new[name] = get(old, name, {}) \cup {port}
                 /\ \A other \in DOMAIN old \ {name} : new[other] = old[other]
                 /\ Replied(h)
                 /\ unpack(rpc_out'[h]) = Str(name \o "!!") ]_vars

\* C4 witness: an advertise call was acknowledged after adding a second port
\* to a bucket that already existed.
C4_Witness ==
    /\ call[App].fn = "advertise"
    /\ rpc_out[App] # NoMsg
    /\ Returned(App) = Str("a!!")
    /\ get(services_to_advertise[App], "a", {}) = {"1", "2"}

\* C5: an unadvertise of a (name, port) that is not advertised leaves the
\* table as it was, logs a warning, is answered with null, and the worker
\* goes on running.
C5_UnadvertiseAbsentIsHarmless ==
    [][ \A h \in Hosts :
          ( /\ Dispatching(h, "unadvertise")
            /\ Handled(h)
            /\ Params(h)[2] \notin get(services_to_advertise[h], Params(h)[1], {}) )
          => /\ services_to_advertise'[h] = services_to_advertise[h]
             /\ warned'[h]
             /\ Replied(h)
             /\ unpack(rpc_out'[h]) = None
             /\ pc'[h] \in {"commands", "discover", "adverts"} ]_vars

\* C6: the reply to discover(name, wait) is null or an endpoint that is in
\* the discovered set under that name when the reply is sent; null is sent
\* only with the bucket of name empty, as it has been at every lookup, the
\* discovered set never losing an entry.
C6_DiscoverReplyIsMember ==
    [][ \A h \in Hosts :
          /\ \A name \in DOMAIN services_found[h] :
                 /\ name \in DOMAIN services_found'[h]
                 /\ services_found[h][name] \subseteq services_found'[h][name]
          /\ (pc[h] = "discover" /\ Replied(h))
             => LET reply == unpack(rpc_out'[h])
                    bucket == get(services_found'[h], call[h].name, {})
                IN  /\ call[h].fn = "discover"
                    /\ \/ reply = None /\ bucket = {}
                       \/ /\ reply.t = "list"
                          /\ Len(reply.v) = 2
                          /\ <<reply.v[1], reply.v[2]>> \in bucket ]_vars

\* C6 witness: a discover call returned an endpoint of a bucket that held
\* two of them.
C6_Witness ==
    /\ call[App].fn = "discover"
    /\ rpc_out[App] # NoMsg
    /\ Returned(App) # None
    /\ Cardinality(get(services_found[App], call[App].name, {})) >= 2

\* C9: once the application has ended and its exit hooks have run while the
\* beacon goes on serving, nothing it advertised is in the advertisement set.
C9_ExitUnadvertises ==
    ( /\ Exited(App)
      /\ rpc_in[App] = NoMsg
      /\ Running(App) )
    => \A i \in 1..Len(hooks[App]) :
          hooks[App][i].args[2] \notin
              get(services_to_advertise[App], hooks[App][i].args[1], {})

\* no thread is inside an API call
Quiescent == \A t \in Threads : thread[t] = "idle"

\* C7: under any interleaving of the threads' calls at most one Beacon is
\* constructed and at most one started, and once the calls are over a Beacon
\* that was constructed is the one the global _beacon names, and it runs.
C7_StartBeaconIdempotent ==
    /\ Cardinality(constructed) <= 1
    /\ Cardinality(started) <= 1
    /\ (Quiescent /\ constructed # {})
       => (_beacon \in constructed /\ _beacon \in started)

\* C8: the step after a failed construction marks the beacon remote and
\* leaves start_beacon normally; the mark is never taken back to None; a call
\* that finds the mark returns from start_beacon without constructing; every
\* control request is sent to localhost at the control port.
C8_BindFailureMarksRemote ==
    [][ \A t \in Threads :
          /\ (thread[t] = "except" /\ thread'[t] # "except")
             => (_beacon' = _remote_beacon /\ thread'[t] = "_rpc")
          /\ (_beacon # None) => (_beacon' # None)
          /\ (thread[t] = "if" /\ thread'[t] # "if" /\ _beacon = _remote_beacon)
             => (thread'[t] = "_rpc" /\ constructed' = constructed)
          /\ (thread[t] = "_rpc" /\ thread'[t] # "_rpc")
             => (connected_to'[t] = <<"localhost", 9998>> /\ outcome'[t] = "requested") ]_vars

\* C8 witness: thread t1 made two calls, one after the other, while another
\* process held the ports: the first marked the beacon remote, the second
\* found the mark, and both sent their request to the loopback control port.
C8_Witness ==
    /\ Quiescent
    /\ starts = 2
    /\ outcome = [t \in Threads |-> IF t = "t1" THEN "requested" ELSE ""]
    /\ _beacon = _remote_beacon
    /\ constructed = {}
    /\ connected_to["t1"] = <<"localhost", 9998>>

\* the exchange's events of one kind all come after an event of another kind
Precedes(first, second) ==
    \A i \in 1..Len(events) :
        events[i] = second => \E j \in 1..(i-1) : events[j] = first

\* C10: in an exchange between send_message_to and wait_for_message_from
\* followed by send_reply_to, the listener's message is the speaker's and
\* the speaker's reply is the listener's; with the support thread at one end
\* the tests' assertions hold; the message is received before a reply is
\* sent and a reply is sent before the speaker returns.
C10_ExchangeIdentity ==
    /\ (listener.who = "nw0" /\ listener.pc \in {"owes reply", "replied"})
       => listener.message = speaker.message
    /\ (speaker.pc = "returned" /\ listener.who = "nw0")
       => (listener.pc = "replied" /\ speaker.reply = listener.reply)
    /\ (speaker.pc = "returned" /\ listener.who = "support")
       => speaker.reply = speaker.message
    /\ Precedes("send", "receive")
    /\ Precedes("receive", "reply")
    /\ Precedes("reply", "return")

\* C10 witness: send_message_to("abc123") returned the null that the
\* listener passed to send_reply_to after wait_for_message_from gave it
\* "abc123".
C10_Witness ==
    /\ speaker = [who |-> "nw0", pc |-> "returned", message |-> Str("abc123"),
                  reply |-> None, autoreply |-> FALSE]
    /\ listener = [who |-> "nw0", pc |-> "replied", message |-> Str("abc123"),
                   reply |-> None, autoreply |-> FALSE]
    /\ events = <<"send", "receive", "reply", "return">>

\* C11: after wait_for_message_from with autoreply has taken a message, no
\* reply is owed: EMPTY was sent before it returned, it is what a speaker
\* still waiting finds on the socket, and it is what the speaker's call
\* returns, whatever the message was.
C11_AutoreplyIsEmpty ==
    (listener.who = "nw0" /\ listener.autoreply)
    => /\ listener.pc = "replied"
       /\ listener.reply = EMPTY
       /\ speaker.pc = "waiting" => _unserialise(wire.reply) = EMPTY
       /\ speaker.pc = "returned" => speaker.reply = EMPTY

\* C11 witness: the support thread of test_wait_for_message_with_autoreply
\* sent "abc123" and read EMPTY from a listener that called
\* wait_for_message_from with autoreply.
C11_Witness ==
    /\ speaker = [who |-> "support", pc |-> "returned", message |-> Str("abc123"),
                  reply |-> EMPTY, autoreply |-> FALSE]
    /\ listener = [who |-> "nw0", pc |-> "replied", message |-> Str("abc123"),
                   reply |-> EMPTY, autoreply |-> TRUE]

\* C12: a request whose verb is none of advertise, unadvertise, discover in
\* any case raises NotImplementedError and leaves both tables as they were;
\* a request "Advertise" is handled as advertise.
C12_UnknownVerbUnimplemented ==
    [][ \A h \in Hosts :
          (pc[h] = "commands" /\ Handled(h))
          => /\ Segments(h)[1] \in {"STOP", "list"}
                => /\ raised'[h] = "NotImplementedError"
                   /\ services_to_advertise'[h] = services_to_advertise[h]
                   /\ services_found'[h] = services_found[h]
             /\ Segments(h)[1] = "Advertise"
                => /\ raised'[h] = ""
                   /\ Params(h)[2] \in services_to_advertise'[h][Params(h)[1]]
                   /\ Replied(h) ]_vars

\* C12 witness: the worker of h1 ended with NotImplementedError while it
\* advertised a service, which is still in its table.
C12_Witness ==
    /\ raised[App] = "NotImplementedError"
    /\ call[App].fn = "foreign"
    /\ call[App].action = "STOP"
    /\ services_to_advertise[App] # EmptyDict

\* C13: while do_discover handles a request with a negative wait no time
\* passes and the discovered set stays as it is, so there is one lookup; the
\* reply is an endpoint of the bucket of name if that bucket is not empty and
\* null otherwise.
C13_NegativeWaitSingleLookup ==
    [][ \A h \in Hosts :
          (pc[h] = "discover" /\ call[h].fn = "discover" /\ call[h].wait < 0)
          => /\ until_t1'[h] = until_t1[h] \/ pc'[h] # "discover"
             /\ services_found'[h] = services_found[h]
             /\ pc'[h] # "discover"
                => LET bucket == get(services_found[h], call[h].name, {})
                       reply == unpack(rpc_out'[h])
                   IN  /\ Replied(h)
                       /\ IF bucket = {}
                          THEN reply = None
                          ELSE reply.t = "list" /\ <<reply.v[1], reply.v[2]>> \in bucket ]_vars

\* C13 witness: discover with the default wait returned at once the endpoint
\* the peer had broadcast.
C13_Witness ==
    /\ call[App].fn = "discover"
    /\ call[App].wait < 0
    /\ rpc_out[App] # NoMsg
    /\ Returned(App) = List(<<Peer, "1">>)

\* C14: no name of an advertisement set is mapped to an empty bucket. (A
\* bucket is a Python set, here a set: a port is in it once or not at all.)
C14_NoEmptyBucket ==
    \A h \in Hosts :
        \A name \in DOMAIN services_to_advertise[h] :
            /\ services_to_advertise[h][name] # {}
            /\ services_to_advertise[h][name] \subseteq {"1", "2"}

\* C14 witness: an unadvertise removed the last port of the only bucket and
\* the bucket with it.
C14_Witness ==
    /\ call[App].fn = "unadvertise"
    /\ rpc_out[App] # NoMsg
    /\ ~warned[App]
    /\ services_to_advertise[App] = EmptyDict

\* C15: a datagram that does not decode to a pair is dropped with a warning:
\* the step that receives it leaves both tables as they were, logs a warning
\* and has the worker go on to its next cycle.
C15_MalformedDatagramDropped ==
    [][ \A h \in Hosts :
          ( /\ pc[h] = "adverts"
            /\ \E d \in udp[h] : d \notin udp'[h] /\ ~is_pair(recvfrom(d)) )
          => /\ services_to_advertise'[h] = services_to_advertise[h]
             /\ services_found'[h] = services_found[h]
             /\ warned'[h]
             /\ pc'[h] = "commands" ]_vars

\* the step is one in which host h's run sets t0 again: a broadcast phase
Broadcasts(h) == since_t0[h] # 0 /\ since_t0'[h] = 0

\* C16: a broadcast phase of host h comes no sooner than interval_secs after
\* t0 was last set and puts on every host's socket the datagram [name, port]
\* of every pair of h's advertisement set as the cycle's command left it, and
\* nothing else; no other step sends a datagram from h.
C16_BroadcastsTheAdvertisementSet ==
    [][ \A h \in Hosts :
          IF Broadcasts(h)
          THEN /\ since_t0[h] >= interval_ticks
               /\ \A g \in Hosts :
                     udp'[g] = udp[g] \cup
                        { [payload |-> [json |-> List(<<name, port>>)], source |-> h] :
                            <<name, port>> \in
                               { <<n, p>> \in Names \X {"1", "2"} :
                                    p \in get(services_to_advertise'[h], n, {}) } }
          ELSE \A g \in Hosts :
                  \A d \in udp'[g] \ udp[g] : d.source # h ]_vars

\* C16 witness: h1 has just broadcast the two pairs of its advertisement set.
C16_Witness ==
    /\ since_t0[App] = 0
    /\ Cardinality({ d \in udp[Peer] : d.source = App }) = 2

\* C18: no step takes an endpoint out of a discovered set, and the step that
\* receives the datagram [name, port] sent by host ip adds (ip, port) under
\* name and nothing else.
C18_DiscoveredSetOnlyGrows ==
    [][ \A h \in Hosts :
          /\ \A name \in DOMAIN services_found[h] :
                 /\ name \in DOMAIN services_found'[h]
                 /\ services_found[h][name] \subseteq services_found'[h][name]
          /\ \A d \in udp[h] \ udp'[h] :
                 d.payload.json.t = "list"
                 => LET name == d.payload.json.v[1]
                        port == d.payload.json.v[2]
                    IN  /\ DOMAIN services_found'[h] = DOMAIN services_found[h] \cup {name}
                        /\ services_found'[h][name] =
                              get(services_found[h], name, {}) \cup {<<d.source, port>>}
                        /\ \A other \in DOMAIN services_found[h] \ {name} :
                               services_found'[h][other] = services_found[h][other] ]_vars

\* C18 witness: the peer still holds the endpoint h1 broadcast, after h1 has
\* unadvertised it and advertises nothing.
C18_Witness ==
    /\ call[App].fn = "unadvertise"
    /\ rpc_out[App] # NoMsg
    /\ services_to_advertise[App] = EmptyDict
    /\ <<App, "1">> \in get(services_found[Peer], "a", {})

\* C19: a step changes a host's advertisement set only by handling an
\* advertise or unadvertise request, and its discovered set only by
\* receiving a datagram; so broadcasts, receptions and discover requests
\* leave the first alone, advertise and unadvertise requests the second.
C19_TablesChangeOnlyByTheirHandlers ==
    [][ \A h \in Hosts :
          /\ services_to_advertise'[h] # services_to_advertise[h]
             => /\ pc[h] = "commands"
                /\ Handled(h)
                /\ Segments(h)[1] \in {"advertise", "unadvertise"}
          /\ services_found'[h] # services_found[h]
             => /\ pc[h] = "adverts"
                /\ udp'[h] # udp[h]
                /\ services_to_advertise'[h] = services_to_advertise[h] ]_vars

\* C19 witness: h1 advertised, broadcast, received its own advert and
\* answered a discover request, and its advertisement set is as advertise
\* left it.
C19_Witness ==
    /\ call[App].fn = "discover"
    /\ rpc_out[App] # NoMsg
    /\ services_to_advertise[App] = [n \in {"a"} |-> {"1"}]
    /\ <<App, "1">> \in get(services_found[App], "a", {})

\* C17: with the stop flag set, a worker at the head of its loop dispatches
\* no request, broadcasts nothing and receives nothing: its next step is the
\* end of run, after which it does nothing; and whenever the flag is set the
\* worker comes to its end, the cycle in progress and its discover wait
\* being finite.
C17_StopEndsWorker ==
    /\ [][ \A h \in Hosts :
             /\ (stop_event[h] /\ pc[h] = "commands")
                => /\ pc'[h] \in {"commands", "ended"}
                   /\ services_to_advertise'[h] = services_to_advertise[h]
                   /\ services_found'[h] = services_found[h]
                   /\ ~Handled(h)
                   /\ ~Replied(h)
                   /\ ~Broadcasts(h)
                   /\ udp[h] \subseteq udp'[h]
             /\ pc[h] = "ended" => pc'[h] = "ended" ]_vars
    /\ \A h \in Hosts : stop_event[h] ~> ~Running(h)

\* C17 witness: stop() was called while h1's worker handled a discover with
\* a long wait; the worker finished it, found the flag and ended, leaving the
\* next request on the control socket.
C17_Witness ==
    /\ pc[App] = "ended"
    /\ stop_event[App]
    /\ rpc_in[App] # NoMsg
    /\ calls = 2

\* C20: a thread reads or changes a table or a bucket only while it holds
\* the mutex, and from do_unadvertise's lookup of the bucket to its removal of
\* the port no step of another thread changes that bucket.
C20_MutexGuardsTables ==
    [][ \A t \in Threads :
          /\ ( /\ at[t] \in {"do_advertise: add", "do_unadvertise: get",
                             "do_unadvertise: if not ports", "do_unadvertise: remove",
                             "do_discover: get", "do_discover: list",
                             "check_for_adverts: add"}
               /\ at'[t] # at[t] )
             => locked_by = t
          /\ ( /\ at[t] \in {"do_unadvertise: if not ports", "do_unadvertise: with again",
                             "do_unadvertise: remove"}
               /\ at'[t] = at[t]
               /\ frame[t].ports # 0 )
             => heap'[frame[t].ports] = heap[frame[t].ports] ]_vars

====
